---- MODULE Spec2Model ----
(***************************************************************************)
(* Model of hdx-scraper-gcf: the Pipeline class of                         *)
(* src/hdx/scraper/gcf/pipeline.py (record mappers, aggregators, the       *)
(* country grouper, the date-range reducer, the memoized fetch and the     *)
(* generate_*_dataset operations).                                         *)
(*                                                                         *)
(* Encoding of Python values:                                              *)
(*   - a str is the sequence of its characters (<<>> is "");               *)
(*   - a dict is a function from its keys; an absent key is a key that is  *)
(*     not in the DOMAIN;                                                  *)
(*   - a value that may be None is a sequence of length 0 or 1:            *)
(*     None == <<>>, Some(v) == <<v>>;                                     *)
(*   - a date string is a triple, see the section on dates;                *)
(*   - amounts of money are exact rationals, held as integers in units of  *)
(*     1/Unit (floating-point rounding is not modelled).                   *)
(***************************************************************************)
EXTENDS Integers, Sequences, FiniteSets, TLC

VARIABLES
    api,              \* what download_json returns for each URL
    _project_data,    \* Pipeline._project_data: None or Some(list)
    _readiness_data,  \* Pipeline._readiness_data: None or Some(list)
    _countries,       \* Pipeline._countries: set of codes
    downloads,        \* number of download_json calls made, per URL
    out,              \* the last operation: its name, arguments and outcome
    first             \* the first outcome of each mapper since construction
                      \* (history, to compare a later call with)

vars == <<api, _project_data, _readiness_data, _countries, downloads, out, first>>

-----------------------------------------------------------------------------
(* Bounds of the model. *)

MaxRecords == 2     \* records in a collection returned by the API
MaxCountries == 2   \* entries in the Countries list of a record
MaxEntities == 2    \* entries in the Entities list of a record
MaxRows == 3        \* rows in a collection handed to _get_date_range

-----------------------------------------------------------------------------
(* Python values. *)

None == <<>>
Some(v) == <<v>>

EmptyStr == <<>>

\* dict.get(key, default)
Get(d, key, default) == IF key \in DOMAIN d THEN d[key] ELSE default

\* a dict with no key
EmptyDict == <<>>

\* the dicts that have the key with one of the values, or do not have it
Opt(key, Values) == {EmptyDict} \cup {key :> v : v \in Values}

\* the sequences over S of length at most n
SeqUpTo(S, n) == UNION {[1..k -> S] : k \in 0..n}

RECURSIVE Sum(_)
Sum(ns) == IF ns = <<>> THEN 0 ELSE Head(ns) + Sum(Tail(ns))

\* the elements of a sequence
Range(s) == {s[i] : i \in DOMAIN s}

-----------------------------------------------------------------------------
(* str operations. *)

Comma == ","
Space == " "

RECURSIVE Join(_, _)
\* sep.join(parts)
Join(sep, parts) ==
    IF parts = <<>> THEN EmptyStr
    ELSE IF Len(parts) = 1 THEN parts[1]
    ELSE parts[1] \o sep \o Join(sep, Tail(parts))

CommaSpace == <<Comma, Space>>

RECURSIVE SplitAcc(_, _, _)
\* s.split(sep) for a one-character sep: cur is the segment being read
SplitAcc(s, sep, cur) ==
    IF s = <<>> THEN <<cur>>
    ELSE IF Head(s) = sep THEN <<cur>> \o SplitAcc(Tail(s), sep, EmptyStr)
    ELSE SplitAcc(Tail(s), sep, Append(cur, Head(s)))

Split(s, sep) == SplitAcc(s, sep, EmptyStr)

RECURSIVE LStrip(_)
LStrip(s) == IF s # <<>> /\ Head(s) = Space THEN LStrip(Tail(s)) ELSE s

RECURSIVE RStrip(_, _)
\* s.rstrip(ch)
RStrip(s, ch) ==
    IF s # <<>> /\ s[Len(s)] = ch THEN RStrip(SubSeq(s, 1, Len(s) - 1), ch) ELSE s

\* s.strip()
Strip(s) == RStrip(LStrip(s), Space)

\* s.startswith(prefix)
StartsWith(s, prefix) ==
    Len(s) >= Len(prefix) /\ SubSeq(s, 1, Len(prefix)) = prefix

-----------------------------------------------------------------------------
(* Dates.                                                                  *)
(* A raw date string of the API is <<kind, year, month, day, hour>>: kind  *)
(* "iso" is an ISO-8601 timestamp, "isoZ" one with a trailing Z, "empty"   *)
(* is "" and "bad" is any text datetime.fromisoformat rejects.             *)
(* A display date string is <<month name, day, year>>, "March 1, 2019";    *)
(* <<"", 0, 0>> is "" and any other triple is text that names no date.     *)
(* A parsed date is <<year, month, day>>.                                  *)

MonthNames ==
    <<"January", "February", "March", "April", "May", "June", "July",
      "August", "September", "October", "November", "December">>

EmptyText == <<"", 0, 0>>

\* the outcome of a call: the exception raised ("" when none) and the value
Returned(v) == [raised |-> "", value |-> v]
Raised(e) == [raised |-> e, value |-> None]

\* bool(date) of an optional raw date string
RawDateTruthy(date) == date # None /\ date[1][1] # "empty"

\* _format_date without the "if date:" of line 418
_format_date_unguarded(date) ==
    IF date = None THEN Raised("AttributeError")
    ELSE LET s == date[1]
         IN  IF s[1] \notin {"iso", "isoZ"} THEN Raised("ValueError")
             ELSE Returned(Some(<<MonthNames[s[3]], s[4], s[2]>>))

_format_date(date) ==
    IF ~RawDateTruthy(date) THEN Returned(None)
    ELSE LET s == date[1]
         IN  IF s[1] \notin {"iso", "isoZ"} THEN Raised("ValueError")
             ELSE Returned(Some(<<MonthNames[s[3]], s[4], s[2]>>))

\* hdx.utilities.dateparse.parse_date of a display date string
parse_date(text) ==
    IF /\ \E m \in DOMAIN MonthNames : MonthNames[m] = text[1]
       /\ text[2] \in 1..31
       /\ text[3] > 0
    THEN Returned(<<text[3], CHOOSE m \in DOMAIN MonthNames : MonthNames[m] = text[1],
                    text[2]>>)
    ELSE Raised("ParserError")

\* d1 <= d2 for parsed dates
DateLE(d1, d2) ==
    \/ d1[1] < d2[1]
    \/ d1[1] = d2[1] /\ d1[2] < d2[2]
    \/ d1[1] = d2[1] /\ d1[2] = d2[2] /\ d1[3] <= d2[3]

MinDate(ds) == CHOOSE d \in Range(ds) : \A e \in Range(ds) : DateLE(d, e)
MaxDate(ds) == CHOOSE d \in Range(ds) : \A e \in Range(ds) : DateLE(e, d)

\* bool(date) of an optional display date string
TextTruthy(date) == date # None /\ date[1] # EmptyText

RECURSIVE ParseDates(_)
\* the loop of _get_date_range: the parsed dates, or the exception
ParseDates(records) ==
    IF records = <<>> THEN Returned(<<>>)
    ELSE LET date == Get(Head(records), "Approval Date", None)
             rest == ParseDates(Tail(records))
         IN  IF ~TextTruthy(date) THEN rest
             ELSE LET p == parse_date(date[1])
                  IN  IF p.raised # "" THEN p
                      ELSE IF rest.raised # "" THEN rest
                      ELSE Returned(<<p.value>> \o rest.value)

_get_date_range(records) ==
    LET dates == ParseDates(records)
    IN  IF dates.raised # "" THEN dates
        ELSE IF dates.value = <<>> THEN Returned(<<None, None>>)
        ELSE Returned(<<Some(MinDate(dates.value)), Some(MaxDate(dates.value))>>)

-----------------------------------------------------------------------------
(* Amounts. *)

RECURSIVE Gcd(_, _)
Gcd(a, b) == IF b = 0 THEN a ELSE Gcd(b, a % b)

RECURSIVE LcmUpTo(_)
LcmUpTo(n) == IF n <= 1 THEN 1 ELSE (LcmUpTo(n - 1) * n) \div Gcd(LcmUpTo(n - 1), n)

\* amounts are held in units of 1/Unit, so that F / n is exact for every
\* n a Countries list can have
Unit == LcmUpTo(MaxCountries)

\* the amount of an integer
Amount(f) == f * Unit

\* amount // n in place of amount / n
DivideFloor(amount, n) == Amount((amount \div Unit) \div n)

\* amount / n, Python's true division, for n # 0
Divide(amount, n) == amount \div n

\* record.get("TotalGCFFunding", 0) or 0
Funding(record) == Amount(Get(record, "TotalGCFFunding", 0))

-----------------------------------------------------------------------------
(* Country Aggregator: Pipeline._get_countries_data.                       *)
(* aggregated_data is an insertion-ordered dict: the sequence of its       *)
(* values, each row holding its key as "ISO3".                             *)

\* the index of the row of aggregated_data with the key, 0 when there is none
IndexOf(rows, field, key) ==
    IF \E i \in DOMAIN rows : rows[i][field] = key
    THEN CHOOSE i \in DOMAIN rows : rows[i][field] = key
    ELSE 0

NewCountryRow(iso3, country, approval_date) ==
    ("ISO3" :> iso3)
    @@ ("Country Name" :> Get(country, "CountryName", EmptyStr))
    @@ ("Region" :> Get(country, "Region", EmptyStr))
    @@ ("LDCs" :> Get(country, "LDCs", FALSE))
    @@ ("SIDS" :> Get(country, "SIDS", FALSE))
    @@ ("FA Financing" :> 0)
    @@ ("# FA" :> 0)
    @@ ("Approval Date" :> approval_date)

\* = in place of += at line 328
UpdateCountryRowAssign(row, project_funding) ==
    [row EXCEPT !["FA Financing"] = project_funding, !["# FA"] = @ + 1]

\* lines 326-329: the += of the two accumulators of one row
UpdateCountryRow(row, project_funding) ==
    [row EXCEPT !["FA Financing"] = @ + project_funding, !["# FA"] = @ + 1]

RECURSIVE CountryEntriesLastSeen(_, _, _, _, _)
\* the loop of lines 309-329 without the guard of line 314: the metadata of
\* a row is written again by every entry with its code
CountryEntriesLastSeen(acc, countries, project_funding, approval_date, n) ==
    IF countries = <<>> THEN acc
    ELSE LET country == Head(countries)
             iso3 == Get(country, "ISO3", EmptyStr)
         IN  IF iso3 = EmptyStr
             THEN CountryEntriesLastSeen(acc, Tail(countries), project_funding,
                                         approval_date, n)
             ELSE LET fresh == NewCountryRow(iso3, country, approval_date)
                      rows == IF IndexOf(acc.rows, "ISO3", iso3) = 0
                              THEN Append(acc.rows, fresh)
                              ELSE acc.rows
                      i == IndexOf(rows, "ISO3", iso3)
                      written == [fresh EXCEPT !["FA Financing"] = rows[i]["FA Financing"],
                                               !["# FA"] = rows[i]["# FA"]]
                      next == [rows |-> [rows EXCEPT
                                            ![i] = UpdateCountryRow(written, project_funding)],
                               trace |-> Append(acc.trace, <<n, iso3, project_funding>>)]
                  IN  CountryEntriesLastSeen(next, Tail(countries), project_funding,
                                             approval_date, n)

RECURSIVE CountryEntries(_, _, _, _, _)
\* lines 309-329: the loop over the country entries of record number n.
\* acc.rows is aggregated_data; acc.trace lists every addition made at line
\* 328 as <<record number, code, share>>.
CountryEntries(acc, countries, project_funding, approval_date, n) ==
    IF countries = <<>> THEN acc
    ELSE LET country == Head(countries)
             iso3 == Get(country, "ISO3", EmptyStr)
         IN  IF iso3 = EmptyStr
             THEN CountryEntries(acc, Tail(countries), project_funding, approval_date, n)
             ELSE LET rows == IF IndexOf(acc.rows, "ISO3", iso3) = 0
                              THEN Append(acc.rows, NewCountryRow(iso3, country, approval_date))
                              ELSE acc.rows
                      i == IndexOf(rows, "ISO3", iso3)
                      next == [rows |-> [rows EXCEPT ![i] = UpdateCountryRow(@, project_funding)],
                               trace |-> Append(acc.trace, <<n, iso3, project_funding>>)]
                  IN  CountryEntries(next, Tail(countries), project_funding, approval_date, n)

\* lines 305-329: one record; the outcome holds the accumulator
CountryRecord(acc, record, n) ==
    LET countries == Get(record, "Countries", <<>>)
        approval_date == _format_date(Get(record, "ApprovalDate", None))
    IN  IF Len(countries) = 0 THEN Raised("ZeroDivisionError")
        ELSE IF approval_date.raised # "" THEN approval_date
        ELSE Returned(CountryEntries(acc, countries,
                                     Divide(Funding(record), Len(countries)),
                                     approval_date.value, n))

RECURSIVE CountryRecords(_, _, _)
\* lines 304-329: the loop over the records, from record number n on
CountryRecords(acc, records, n) ==
    IF n > Len(records) THEN Returned(acc)
    ELSE LET step == CountryRecord(acc, records[n], n)
         IN  IF step.raised # "" THEN step
             ELSE CountryRecords(step.value, records, n + 1)

\* the rows returned and the additions made, or the exception
_get_countries_data(records) ==
    CountryRecords([rows |-> <<>>, trace |-> <<>>], records, 1)

-----------------------------------------------------------------------------
(* Entity Aggregator: Pipeline._get_entities_data. *)

\* d.get(key): None when the key is absent
GetOpt(d, key) == IF key \in DOMAIN d THEN Some(d[key]) ELSE None

NewEntityRow(acronym, entity, approval_date) ==
    ("Entity" :> acronym)
    @@ ("Name" :> Get(entity, "Name", EmptyStr))
    @@ ("DAE" :> IF Get(entity, "Access", "") = "Direct" THEN "TRUE" ELSE "FALSE")
    @@ ("Type" :> Get(entity, "Type", EmptyStr))
    @@ ("Sector" :> GetOpt(entity, "Sector"))
    @@ ("# Approved" :> 0)
    @@ ("FA Financing" :> 0)
    @@ ("Approval Date" :> approval_date)

\* lines 361-364: the += of the two accumulators of one row
UpdateEntityRow(row, fa_financing) ==
    [row EXCEPT !["# Approved"] = @ + 1, !["FA Financing"] = @ + fa_financing]

RECURSIVE EntityEntries(_, _, _, _, _)
\* lines 344-364: the loop over the entity entries of record number n.
\* acc.trace lists every addition made at line 364 as
\* <<record number, acronym, amount>>.
EntityEntries(acc, entities, fa_financing, approval_date, n) ==
    IF entities = <<>> THEN acc
    ELSE LET entity == Head(entities)
             acronym == Get(entity, "Acronym", EmptyStr)
         IN  IF acronym = EmptyStr
             THEN EntityEntries(acc, Tail(entities), fa_financing, approval_date, n)
             ELSE LET rows == IF IndexOf(acc.rows, "Entity", acronym) = 0
                              THEN Append(acc.rows, NewEntityRow(acronym, entity, approval_date))
                              ELSE acc.rows
                      i == IndexOf(rows, "Entity", acronym)
                      next == [rows |-> [rows EXCEPT ![i] = UpdateEntityRow(@, fa_financing)],
                               trace |-> Append(acc.trace, <<n, acronym, fa_financing>>)]
                  IN  EntityEntries(next, Tail(entities), fa_financing, approval_date, n)

\* the funding split over the entity entries, as the Country Aggregator does
EntityRecordSplit(acc, record, n) ==
    LET approval_date == _format_date(Get(record, "ApprovalDate", None))
        entities == Get(record, "Entities", <<>>)
    IN  IF approval_date.raised # "" THEN approval_date
        ELSE Returned(EntityEntries(acc, entities,
                                    IF entities = <<>> THEN Funding(record)
                                    ELSE DivideFloor(Funding(record), Len(entities)),
                                    approval_date.value, n))

\* lines 342-364: one record
EntityRecord(acc, record, n) ==
    LET approval_date == _format_date(Get(record, "ApprovalDate", None))
    IN  IF approval_date.raised # "" THEN approval_date
        ELSE Returned(EntityEntries(acc, Get(record, "Entities", <<>>), Funding(record),
                                    approval_date.value, n))

RECURSIVE EntityRecords(_, _, _)
\* lines 341-364: the loop over the records, from record number n on
EntityRecords(acc, records, n) ==
    IF n > Len(records) THEN Returned(acc)
    ELSE LET step == EntityRecord(acc, records[n], n)
         IN  IF step.raised # "" THEN step
             ELSE EntityRecords(step.value, records, n + 1)

\* the rows returned and the additions made, or the exception
_get_entities_data(records) ==
    EntityRecords([rows |-> <<>>, trace |-> <<>>], records, 1)

-----------------------------------------------------------------------------
(* Activity Mapper: Pipeline._get_activities_data. *)

Digits == {"0", "1", "2", "3", "4", "5", "6", "7", "8", "9"}

Signs == {"+", "-"}

\* the text is what float() accepts as a decimal number: an optional sign,
\* then digits with at most one point (texts with blanks, exponents,
\* underscores, "inf" or "nan" are not among the inputs)
IsFloatText(s) ==
    LET body == IF s # <<>> /\ s[1] \in Signs THEN Tail(s) ELSE s
    IN  /\ Range(body) \subseteq Digits \cup {"."}
        /\ Cardinality({i \in DOMAIN body : body[i] = "."}) <= 1
        /\ \E i \in DOMAIN body : body[i] \in Digits

\* float(s) > 0 with a text float() rejects taken for a number that is not
\* positive instead of raising ValueError
FloatPositiveLenient(s) ==
    Returned(/\ IsFloatText(s)
             /\ s[1] # "-"
             /\ \E i \in DOMAIN s : s[i] \in Digits \ {"0"})

\* line 264, float(s) > 0: float() raises ValueError for a text that is no
\* number
FloatPositive(s) ==
    IF IsFloatText(s)
    THEN Returned(s[1] # "-" /\ \E i \in DOMAIN s : s[i] \in Digits \ {"0"})
    ELSE Raised("ValueError")

RECURSIVE Areas(_)
\* lines 261-265: the list of area names (each None or Some(name)), or the
\* exception of float()
Areas(result_areas) ==
    IF result_areas = <<>> THEN Returned(<<>>)
    ELSE LET a == Head(result_areas)
             value == Get(a, "Value", EmptyStr)
             positive == FloatPositive(RStrip(value, "%"))
             rest == Areas(Tail(result_areas))
         IN  IF value = EmptyStr THEN rest
             ELSE IF positive.raised # "" THEN positive
             ELSE IF rest.raised # "" THEN rest
             ELSE IF positive.value THEN Returned(<<GetOpt(a, "Area")>> \o rest.value)
             ELSE rest

\* ", ".join(areas): a None among the items makes join raise TypeError
JoinAreas(areas) ==
    IF \E i \in DOMAIN areas : areas[i] = None THEN Raised("TypeError")
    ELSE Returned(Join(CommaSpace, [i \in DOMAIN areas |-> areas[i][1]]))

\* [c.get(key) for c in countries if key in c]
Having(countries, key) ==
    LET has(c) == key \in DOMAIN c
        kept == SelectSeq(countries, has)
    IN  [i \in DOMAIN kept |-> kept[i][key]]

\* the codes of a record that self._countries does not hold yet
CodesUnseen(record) ==
    LET unseen(code) == code \notin _countries
    IN  SelectSeq(Having(Get(record, "Countries", <<>>), "ISO3"), unseen)

\* line 241: the codes of a record
Codes(record) == Having(Get(record, "Countries", <<>>), "ISO3")

\* lines 250-257
Modality(ref_id) ==
    IF StartsWith(ref_id, <<"F", "P">>) THEN <<"F", "P">>
    ELSE IF StartsWith(ref_id, <<"S", "A", "P">>) THEN <<"S", "A", "P">>
    ELSE EmptyStr

ApiUrlPrefix == "http://api.gcfund.org/v1/projects/"

\* lines 231-289: the row of one record, or the exception
ActivityRow(record) ==
    LET entities == Get(record, "Entities", <<>>)
        entity == IF entities # <<>> THEN GetOpt(entities[1], "Acronym") ELSE None
        countries == Get(record, "Countries", <<>>)
        country_names == Join(CommaSpace, Having(countries, "CountryName"))
        country_codes == Join(CommaSpace, Codes(record))
        approval_date == _format_date(Get(record, "ApprovalDate", None))
        completion_date == _format_date(Get(record, "DateCompletion", None))
        ref_id == Get(record, "ApprovedRef", EmptyStr)
        areas == Areas(Get(record, "ResultAreas", <<>>))
        result_areas == IF areas.raised # "" THEN areas ELSE JoinAreas(areas.value)
    IN  IF approval_date.raised # "" THEN approval_date
        ELSE IF completion_date.raised # "" THEN completion_date
        ELSE IF result_areas.raised # "" THEN result_areas
        ELSE Returned(
            ("Ref #" :> ref_id)
            @@ ("Modality" :> Modality(ref_id))
            @@ ("Project Name" :> GetOpt(record, "ProjectName"))
            @@ ("Entity" :> entity)
            @@ ("Countries" :> country_names)
            @@ ("Country Codes" :> country_codes)
            @@ ("Board Meeting" :> Get(record, "BoardMeeting", EmptyStr))
            @@ ("Sector" :> Get(record, "Sector", EmptyStr))
            @@ ("Theme" :> Get(record, "Theme", EmptyStr))
            @@ ("Project Size" :> Get(record, "Size", EmptyStr))
            @@ ("Approval Date" :> approval_date.value)
            @@ ("Completion Date" :> completion_date.value)
            @@ ("ESS Category" :> Get(record, "RiskCategory", EmptyStr))
            \* record.get("TotalGCFFunding", ""): Some(number), or None for ""
            @@ ("FA Financing" :> GetOpt(record, "TotalGCFFunding"))
            @@ ("Result Areas" :> result_areas.value)
            @@ ("Status" :> Get(record, "Status", EmptyStr))
            @@ ("Project URL" :> Get(record, "ProjectURL", EmptyStr))
            @@ ("API URL" :> <<ApiUrlPrefix, Get(record, "ProjectsID", EmptyStr)>>))

RECURSIVE ActivityRecords(_, _, _)
\* lines 229-291: the loop over the records, from record number n on.
\* acc.rows is activity_data, acc.codes what the loop has added to
\* self._countries; an exception keeps the codes added so far.
ActivityRecords(acc, records, n) ==
    IF n > Len(records) THEN [raised |-> "", value |-> acc.rows, codes |-> acc.codes]
    ELSE LET row == ActivityRow(records[n])
             codes == acc.codes \cup Range(Codes(records[n]))
         IN  IF row.raised # ""
             THEN [raised |-> row.raised, value |-> None, codes |-> codes]
             ELSE ActivityRecords([rows |-> Append(acc.rows, row.value), codes |-> codes],
                                  records, n + 1)

_get_activities_data(records) ==
    ActivityRecords([rows |-> <<>>, codes |-> {}], records, 1)

-----------------------------------------------------------------------------
(* Readiness Mapper: Pipeline._get_readiness_data. *)

\* lines 377-396: the row of one record, or the exception
ReadinessRow(rec) ==
    LET countries == Get(rec, "Countries", <<>>)
        country_name == IF countries # <<>> THEN GetOpt(countries[1], "CountryName") ELSE None
        approval_date == _format_date(Get(rec, "AgreementSignedDate", None))
    IN  IF approval_date.raised # "" THEN approval_date
        ELSE Returned(
            ("Ref #" :> GetOpt(rec, "AgreementReference"))
            @@ ("Activity" :> GetOpt(rec, "Activity"))
            @@ ("Project Title" :> GetOpt(rec, "ProjectTitle"))
            @@ ("Country" :> country_name)
            @@ ("Delivery Partner" :> GetOpt(rec, "DeliveryPartner"))
            @@ ("Region" :> GetOpt(rec, "Region"))
            @@ ("Status" :> GetOpt(rec, "Status"))
            @@ ("Approval Date" :> approval_date.value)
            @@ ("Financing" :> GetOpt(rec, "AmountApprovedInUSD")))

RECURSIVE _get_readiness_data(_)
\* lines 375-398
_get_readiness_data(records) ==
    IF records = <<>> THEN Returned(<<>>)
    ELSE LET row == ReadinessRow(Head(records))
             rest == _get_readiness_data(Tail(records))
         IN  IF row.raised # "" THEN row
             ELSE IF rest.raised # "" THEN rest
             ELSE Returned(<<row.value>> \o rest.value)

-----------------------------------------------------------------------------
(* Country-Activity Grouper: Pipeline.get_activities_by_country.           *)
(* country_projects is an insertion-ordered dict: the sequence of its      *)
(* items, each [key |-> code, rows |-> list].                              *)

\* code in place of code.strip() at line 410
CodesOfTextUnstripped(countries_data) ==
    LET parts == Split(countries_data, Comma)
        nonempty(code) == Strip(code) # EmptyStr
    IN  SelectSeq(parts, nonempty)

\* lines 409-411
CodesOfText(countries_data) ==
    LET parts == Split(countries_data, Comma)
        stripped == [i \in DOMAIN parts |-> Strip(parts[i])]
        nonempty(code) == code # EmptyStr
    IN  SelectSeq(stripped, nonempty)

RECURSIVE GroupCodesOnce(_, _, _)
\* the loop of lines 412-413 over the distinct codes of the project only
GroupCodesOnce(country_projects, countries, project) ==
    IF countries = <<>> THEN country_projects
    ELSE LET country == Head(countries)
             items == IF IndexOf(country_projects, "key", country) = 0
                      THEN Append(country_projects, [key |-> country, rows |-> <<>>])
                      ELSE country_projects
             i == IndexOf(items, "key", country)
         IN  IF country \in Range(Tail(countries))
             THEN GroupCodesOnce(country_projects, Tail(countries), project)
             ELSE GroupCodesOnce([items EXCEPT ![i].rows = Append(@, project)],
                                 Tail(countries), project)

RECURSIVE GroupCodes(_, _, _)
\* lines 412-413: country_projects[country].append(project) for each code
GroupCodes(country_projects, countries, project) ==
    IF countries = <<>> THEN country_projects
    ELSE LET country == Head(countries)
             items == IF IndexOf(country_projects, "key", country) = 0
                      THEN Append(country_projects, [key |-> country, rows |-> <<>>])
                      ELSE country_projects
             i == IndexOf(items, "key", country)
         IN  GroupCodes([items EXCEPT ![i].rows = Append(@, project)],
                        Tail(countries), project)

RECURSIVE GroupProjects(_, _)
\* lines 406-413
GroupProjects(country_projects, projects) ==
    IF projects = <<>> THEN country_projects
    ELSE GroupProjects(
             GroupCodes(country_projects,
                        CodesOfText(Get(Head(projects), "Country Codes", EmptyStr)),
                        Head(projects)),
             Tail(projects))

\* lines 405-414, given the rows of _get_activities_data
get_activities_by_country(projects) == GroupProjects(<<>>, projects)

-----------------------------------------------------------------------------
(* The Pipeline object: construction, the memoized fetch, the operations.  *)

ProjectsUrl == "projects"
ReadinessUrl == "readinessProjects"

\* the methods whose results the history `first` keeps
Mappers ==
    {"_get_activities_data", "_get_countries_data", "_get_entities_data",
     "_get_readiness_data", "get_activities_by_country"}

\* "if not self._project_data" in place of "is None" at line 211
_fetch_project_data_falsy ==
    IF _project_data = None \/ _project_data[1] = <<>>
    THEN [data |-> api[ProjectsUrl], fetched |-> 1]
    ELSE [data |-> _project_data[1], fetched |-> 0]

\* lines 210-214: the list returned, and the number of download_json calls made
_fetch_project_data ==
    IF _project_data = None
    THEN [data |-> api[ProjectsUrl], fetched |-> 1]
    ELSE [data |-> _project_data[1], fetched |-> 0]

\* lines 216-220
_fetch_readiness_data ==
    IF _readiness_data = None
    THEN [data |-> api[ReadinessUrl], fetched |-> 1]
    ELSE [data |-> _readiness_data[1], fetched |-> 0]

\* the state after _fetch_project_data returned
FetchedProjects ==
    /\ _project_data' = Some(_fetch_project_data.data)
    /\ downloads' = [downloads EXCEPT ![ProjectsUrl] = @ + _fetch_project_data.fetched]
    /\ UNCHANGED <<api, _readiness_data>>

\* the state after _fetch_readiness_data returned
FetchedReadiness ==
    /\ _readiness_data' = Some(_fetch_readiness_data.data)
    /\ downloads' = [downloads EXCEPT ![ReadinessUrl] = @ + _fetch_readiness_data.fetched]
    /\ UNCHANGED <<api, _project_data>>

\* the record of an operation in `out`
Outcome(op, args, raised, value, trace, resource, dataset) ==
    [op |-> op, args |-> args, raised |-> raised, value |-> value, trace |-> trace,
     resource |-> resource, dataset |-> dataset]

\* the history after mapper m returned or raised
Noted(m, raised, value) ==
    first' = IF first[m] = None
             THEN [first EXCEPT ![m] = Some([raised |-> raised, value |-> value,
                                             again |-> FALSE])]
             ELSE [first EXCEPT ![m] = Some([@[1] EXCEPT !.again = TRUE])]

\* headers that do not come from the first row (no data[0] at line 55)
GenerateDatasetFixedHeaders(title, data) ==
    LET range == _get_date_range(data.value)
    IN  IF data.raised # ""
        THEN [raised |-> data.raised, resource |-> None, dataset |-> None]
        ELSE IF range.raised # ""
        THEN [raised |-> range.raised, resource |-> None, dataset |-> None]
        ELSE [raised |-> "", resource |-> Some(data.value),
              dataset |-> Some([title |-> title, time_period |-> range.value])]

\* lines 35-64 (and 72-101, 108-136, 144-172, 180-208): what a
\* generate_*_dataset operation does with the rows its mapper returned.
\* resource is what generate_resource_from_iterable is called with.
GenerateDataset(title, data) ==
    LET range == _get_date_range(data.value)
    IN  IF data.raised # ""
        THEN [raised |-> data.raised, resource |-> None, dataset |-> None]
        ELSE IF range.raised # ""
        THEN [raised |-> range.raised, resource |-> None, dataset |-> None]
        ELSE IF data.value = <<>>
        THEN [raised |-> "IndexError", resource |-> None, dataset |-> None]
        ELSE [raised |-> "", resource |-> Some(data.value),
              dataset |-> Some([title |-> title, time_period |-> range.value])]

\* __init__, lines 20-27, with a retriever that returns `a`
Constructed(a) ==
    /\ api = a
    /\ _project_data = None
    /\ _readiness_data = None
    /\ _countries = {}
    /\ downloads = [u \in {ProjectsUrl, ReadinessUrl} |-> 0]
    /\ out = Outcome("__init__", <<>>, "", None, <<>>, None, None)
    /\ first = [m \in Mappers |-> None]

\* _get_activities_data()
Call_get_activities_data ==
    LET r == _get_activities_data(_fetch_project_data.data)
    IN  /\ FetchedProjects
        /\ _countries' = _countries \cup r.codes
        /\ out' = Outcome("_get_activities_data", <<>>, r.raised, r.value, <<>>, None, None)
        /\ Noted("_get_activities_data", r.raised, r.value)

\* _get_countries_data()
Call_get_countries_data ==
    LET r == _get_countries_data(_fetch_project_data.data)
        rows == IF r.raised = "" THEN r.value.rows ELSE None
    IN  /\ FetchedProjects
        /\ out' = Outcome("_get_countries_data", <<>>, r.raised, rows,
                          IF r.raised = "" THEN r.value.trace ELSE <<>>, None, None)
        /\ Noted("_get_countries_data", r.raised, rows)
        /\ UNCHANGED _countries

\* _get_entities_data()
Call_get_entities_data ==
    LET r == _get_entities_data(_fetch_project_data.data)
        rows == IF r.raised = "" THEN r.value.rows ELSE None
    IN  /\ FetchedProjects
        /\ out' = Outcome("_get_entities_data", <<>>, r.raised, rows,
                          IF r.raised = "" THEN r.value.trace ELSE <<>>, None, None)
        /\ Noted("_get_entities_data", r.raised, rows)
        /\ UNCHANGED _countries

\* _get_readiness_data()
Call_get_readiness_data ==
    LET r == _get_readiness_data(_fetch_readiness_data.data)
    IN  /\ FetchedReadiness
        /\ out' = Outcome("_get_readiness_data", <<>>, r.raised, r.value, <<>>, None, None)
        /\ Noted("_get_readiness_data", r.raised, r.value)
        /\ UNCHANGED _countries

\* get_activities_by_country(), lines 400-414; args holds the rows grouped
Call_get_activities_by_country ==
    LET r == _get_activities_data(_fetch_project_data.data)
        groups == IF r.raised = "" THEN get_activities_by_country(r.value) ELSE None
    IN  /\ FetchedProjects
        /\ _countries' = _countries \cup r.codes
        /\ out' = Outcome("get_activities_by_country", r.value, r.raised, groups, <<>>,
                          None, None)
        /\ first' = [first EXCEPT !["_get_activities_data"] =
                        IF @ = None
                        THEN Some([raised |-> r.raised, value |-> r.value, again |-> FALSE])
                        ELSE Some([@[1] EXCEPT !.again = TRUE]),
                     !["get_activities_by_country"] =
                        IF @ = None
                        THEN Some([raised |-> r.raised, value |-> groups, again |-> FALSE])
                        ELSE Some([@[1] EXCEPT !.again = TRUE])]

\* _get_date_range(records), lines 424-435
Call_get_date_range(records) ==
    LET r == _get_date_range(records)
    IN  /\ out' = Outcome("_get_date_range", records, r.raised, r.value, <<>>, None, None)
        /\ UNCHANGED <<api, _project_data, _readiness_data, _countries, downloads, first>>

\* generate_activities_dataset(), lines 29-64
generate_activities_dataset ==
    LET r == _get_activities_data(_fetch_project_data.data)
        g == GenerateDataset("title_activities", r)
    IN  /\ FetchedProjects
        /\ _countries' = _countries \cup r.codes
        /\ out' = Outcome("generate_activities_dataset", <<>>, g.raised, r.value, <<>>,
                          g.resource, g.dataset)
        /\ Noted("_get_activities_data", r.raised, r.value)

\* generate_activities_by_country_dataset(iso3, country_data), lines 66-101
generate_activities_by_country_dataset(iso3, country_data) ==
    LET g == GenerateDataset(iso3, Returned(country_data))
    IN  /\ out' = Outcome("generate_activities_by_country_dataset", country_data,
                          g.raised, None, <<>>, g.resource, g.dataset)
        /\ UNCHANGED <<api, _project_data, _readiness_data, _countries, downloads, first>>

\* generate_countries_dataset(), lines 103-136
generate_countries_dataset ==
    LET r == _get_countries_data(_fetch_project_data.data)
        rows == IF r.raised = "" THEN r.value.rows ELSE None
        g == GenerateDataset("title_countries", [raised |-> r.raised, value |-> rows])
    IN  /\ FetchedProjects
        /\ out' = Outcome("generate_countries_dataset", <<>>, g.raised, rows, <<>>,
                          g.resource, g.dataset)
        /\ Noted("_get_countries_data", r.raised, rows)
        /\ UNCHANGED _countries

\* generate_entities_dataset(), lines 138-172
generate_entities_dataset ==
    LET r == _get_entities_data(_fetch_project_data.data)
        rows == IF r.raised = "" THEN r.value.rows ELSE None
        g == GenerateDataset("title_entities", [raised |-> r.raised, value |-> rows])
    IN  /\ FetchedProjects
        /\ out' = Outcome("generate_entities_dataset", <<>>, g.raised, rows, <<>>,
                          g.resource, g.dataset)
        /\ Noted("_get_entities_data", r.raised, rows)
        /\ UNCHANGED _countries

\* generate_readiness_dataset(), lines 174-208
generate_readiness_dataset ==
    LET r == _get_readiness_data(_fetch_readiness_data.data)
        g == GenerateDataset("title_readiness", r)
    IN  /\ FetchedReadiness
        /\ out' = Outcome("generate_readiness_dataset", <<>>, g.raised, r.value, <<>>,
                          g.resource, g.dataset)
        /\ Noted("_get_readiness_data", r.raised, r.value)
        /\ UNCHANGED _countries

-----------------------------------------------------------------------------
(* Inputs: the values the API is taken to return. *)

KEN == <<"K", "E", "N">>
UGA == <<"U", "G", "A">>
Kenya == <<"K", "e">>
Uganda == <<"U", "g">>
Nowhere == <<"N", "o">>

Africa == <<"A", "f">>

March2019 == Some(<<"isoZ", 2019, 3, 1, 0>>)
Nov2015 == Some(<<"iso", 2015, 11, 5, 23>>)

\* an API with the project records and the readiness records
Api(projects, readiness) == (ProjectsUrl :> projects) @@ (ReadinessUrl :> readiness)

KenyaEntry == [ISO3 |-> KEN, CountryName |-> Kenya, Region |-> Africa, LDCs |-> FALSE]
UgandaEntry == [ISO3 |-> UGA, CountryName |-> Uganda, Region |-> Africa, LDCs |-> TRUE]

\* country entries: one with a code, and one that has no ISO3
CountryEntryValues == {KenyaEntry, [CountryName |-> Nowhere]}

\* project records for the Country Aggregator: every Countries list over
\* CountryEntryValues (absent, empty, with a repeated code, with entries
\* without ISO3) with a funding, and records with a second code, with no
\* funding, an explicit 0, another funding and a date
CountryRecordValues ==
    {c @@ [TotalGCFFunding |-> 3] :
        c \in Opt("Countries", SeqUpTo(CountryEntryValues, MaxCountries))}
    \cup {[Countries |-> <<KenyaEntry>>],
          [Countries |-> <<UgandaEntry, KenyaEntry>>, TotalGCFFunding |-> 1,
           ApprovalDate |-> March2019],
          [Countries |-> <<KenyaEntry, UgandaEntry>>, TotalGCFFunding |-> 3],
          [Countries |-> <<UgandaEntry>>, TotalGCFFunding |-> 0]}

AcronymA == <<"A">>
AcronymB == <<"B">>

EntityA == [Acronym |-> AcronymA, Name |-> <<"a">>, Access |-> "Direct"]
EntityB == [Acronym |-> AcronymB, Access |-> "International", Sector |-> <<"p">>]

\* entity entries: one with an acronym, and one that has none
EntityEntryValues == {EntityA, [Name |-> <<"n">>]}

\* project records for the Entity Aggregator: every Entities list over
\* EntityEntryValues with a funding, and records with a second acronym, with
\* no funding, an explicit 0, another funding and a date
EntityRecordValues ==
    {e @@ [TotalGCFFunding |-> 3] :
        e \in Opt("Entities", SeqUpTo(EntityEntryValues, MaxEntities))}
    \cup {[Entities |-> <<EntityA>>],
          [Entities |-> <<EntityB, EntityA>>, TotalGCFFunding |-> 1,
           ApprovalDate |-> March2019],
          [Entities |-> <<EntityA, EntityB>>, TotalGCFFunding |-> 3],
          [Entities |-> <<EntityB>>, TotalGCFFunding |-> 0]}

InitCountries ==
    \E projects \in SeqUpTo(CountryRecordValues, MaxRecords) :
        Constructed(Api(projects, <<>>))

NextCountries ==
    \/ Call_get_countries_data
    \/ generate_countries_dataset

SpecCountries == InitCountries /\ [][NextCountries]_vars

-----------------------------------------------------------------------------
(* Properties of the Country Aggregator (under SpecCountries). *)

\* the records the last operation read
Records == _project_data[1]

\* the Countries list of record number n
CountriesOf(n) == Get(Records[n], "Countries", <<>>)

\* the additions the trace of the last operation lists for record number n
AddedBy(n) ==
    LET of_n(t) == t[1] = n
    IN  SelectSeq(out.trace, of_n)

\* the shares of a sequence of additions
Shares(additions) == [i \in DOMAIN additions |-> additions[i][3]]

\* the country entries of a list that carry the code
EntriesWith(countries, code) ==
    {i \in DOMAIN countries : Get(countries[i], "ISO3", EmptyStr) = code}

\* the records without those that have no country entry
WithCountries(records) ==
    LET some(record) == Get(record, "Countries", <<>>) # <<>>
    IN  SelectSeq(records, some)

CountriesReturned == out.op = "_get_countries_data" /\ out.raised = ""

\* C1 (as claimed): when some record has an empty or absent Countries list,
\* _get_countries_data does not raise, and returns the rows it returns for
\* the input without those records.
C1_ZeroCountryGuard ==
    (out.op = "_get_countries_data"
        /\ \E n \in DOMAIN Records : CountriesOf(n) = <<>>)
    => /\ out.raised = ""
       /\ out.value = _get_countries_data(WithCountries(Records)).value.rows

Attributed(countries) ==
    {i \in DOMAIN countries : Get(countries[i], "ISO3", EmptyStr) # EmptyStr}

Referencing(code) == {n \in DOMAIN Records : EntriesWith(CountriesOf(n), code) # {}}

RECURSIVE SumOver(_, _)
\* the sum of f[x] over the finite set S
SumOver(f, S) ==
    IF S = {} THEN 0
    ELSE LET x == CHOOSE x \in S : TRUE
         IN  f[x] + SumOver(f, S \ {x})

\* C3 (as claimed): every row has "# FA" equal to the number of records
\* that reference its code and "FA Financing" equal to the sum over those
\* records of funding / number of countries, a record counting once per code.
C3_RowCountsRecords ==
    CountriesReturned =>
        \A i \in DOMAIN out.value :
            LET row == out.value[i]
                refs == Referencing(row["ISO3"])
                share == [n \in refs |-> Divide(Funding(Records[n]), Len(CountriesOf(n)))]
            IN  /\ row["# FA"] = Cardinality(refs)
                /\ row["FA Financing"] = SumOver(share, refs)

\* C3 (amended): every row has "# FA" equal to the number of country
\* entries, over all records, that carry its code and "FA Financing" equal
\* to the sum over those entries of funding / number of countries of the
\* entry's record: a record counts once per entry that carries the code.
C3_RowCountsEntries ==
    CountriesReturned =>
        \A i \in DOMAIN out.value :
            LET row == out.value[i]
                refs == Referencing(row["ISO3"])
                count == [n \in refs |-> Cardinality(EntriesWith(CountriesOf(n), row["ISO3"]))]
                share == [n \in refs |->
                             count[n] * Divide(Funding(Records[n]), Len(CountriesOf(n)))]
            IN  /\ row["ISO3"] # EmptyStr
                /\ refs # {}
                /\ row["# FA"] = SumOver(count, refs)
                /\ row["FA Financing"] = SumOver(share, refs)

\* C3 witness: a row that two records reference has been returned.
C3_Witness ==
    /\ CountriesReturned
    /\ \E i \in DOMAIN out.value :
           /\ Cardinality(Referencing(out.value[i]["ISO3"])) = 2
           /\ out.value[i]["FA Financing"] > 0

-----------------------------------------------------------------------------
(* Properties of the Entity Aggregator (under SpecEntities). *)

InitEntities ==
    \E projects \in SeqUpTo(EntityRecordValues, MaxRecords) :
        Constructed(Api(projects, <<>>))

NextEntities ==
    \/ Call_get_entities_data
    \/ generate_entities_dataset

SpecEntities == InitEntities /\ [][NextEntities]_vars

\* the Entities list of record number n
EntitiesOf(n) == Get(Records[n], "Entities", <<>>)

\* the entity entries of a list that carry the acronym
EntriesNamed(entities, acronym) ==
    {i \in DOMAIN entities : Get(entities[i], "Acronym", EmptyStr) = acronym}

\* the records that list the acronym
Listing(acronym) == {n \in DOMAIN Records : EntriesNamed(EntitiesOf(n), acronym) # {}}

\* the amounts the trace of the last operation lists for record n and the acronym
AddedTo(n, acronym) ==
    LET hit(t) == t[1] = n /\ t[2] = acronym
    IN  Shares(SelectSeq(out.trace, hit))

EntitiesReturned == out.op = "_get_entities_data" /\ out.raised = ""

\* C4 (as claimed): a record with funding F adds F to each entity it lists
\* with an acronym and nothing for entries without one; every row has
\* "# Approved" equal to the number of records listing its acronym and "FA
\* Financing" equal to the sum of those records' full funding.
C4_EntityCountsRecords ==
    EntitiesReturned =>
        /\ \A t \in Range(out.trace) : t[2] # EmptyStr
        /\ \A n \in DOMAIN Records :
               \A e \in DOMAIN EntitiesOf(n) :
                   LET acronym == Get(EntitiesOf(n)[e], "Acronym", EmptyStr)
                   IN  acronym # EmptyStr => Sum(AddedTo(n, acronym)) = Funding(Records[n])
        /\ \A i \in DOMAIN out.value :
               LET row == out.value[i]
                   refs == Listing(row["Entity"])
                   full == [n \in refs |-> Funding(Records[n])]
               IN  /\ row["# Approved"] = Cardinality(refs)
                   /\ row["FA Financing"] = SumOver(full, refs)

\* C4 (amended): a record with funding F adds F (not F/k) once per entity
\* entry that has an acronym and nothing for entries without one; every row
\* has "# Approved" equal to the number of entity entries, over all
\* records, that carry its acronym and "FA Financing" equal to the sum over
\* those entries of the full funding of the entry's record.
C4_EntityCountsEntries ==
    EntitiesReturned =>
        /\ \A t \in Range(out.trace) : t[2] # EmptyStr /\ t[3] = Funding(Records[t[1]])
        /\ \A n \in DOMAIN Records :
               \A e \in DOMAIN EntitiesOf(n) :
                   LET acronym == Get(EntitiesOf(n)[e], "Acronym", EmptyStr)
                   IN  acronym # EmptyStr =>
                           Len(AddedTo(n, acronym))
                               = Cardinality(EntriesNamed(EntitiesOf(n), acronym))
        /\ \A i \in DOMAIN out.value :
               LET row == out.value[i]
                   refs == Listing(row["Entity"])
                   count == [n \in refs |->
                                Cardinality(EntriesNamed(EntitiesOf(n), row["Entity"]))]
                   full == [n \in refs |-> count[n] * Funding(Records[n])]
               IN  /\ row["Entity"] # EmptyStr
                   /\ refs # {}
                   /\ row["# Approved"] = SumOver(count, refs)
                   /\ row["FA Financing"] = SumOver(full, refs)

\* C4 witness: a record with two entities and a funding has added the full
\* funding to both, and a row that two records list has been returned.
C4_Witness ==
    /\ EntitiesReturned
    /\ \E n \in DOMAIN Records :
           /\ EntitiesOf(n) = <<EntityA, EntityB>>
           /\ AddedTo(n, AcronymA) = <<Amount(3)>>
           /\ AddedTo(n, AcronymB) = <<Amount(3)>>
    /\ \E i \in DOMAIN out.value : Cardinality(Listing(out.value[i]["Entity"])) = 2

-----------------------------------------------------------------------------
(* Properties of the Date-Range Reducer (under SpecDates). *)

\* rows for _get_date_range: without the field, with None, with "", with
\* display dates and with text that names no date
DateRowValues ==
    {EmptyDict,
     "Approval Date" :> None,
     "Approval Date" :> Some(EmptyText),
     "Approval Date" :> Some(<<"March", 1, 2019>>),
     "Approval Date" :> Some(<<"November", 5, 2015>>),
     "Approval Date" :> Some(<<"n/a", 0, 0>>)}

InitDates == Constructed(Api(<<>>, <<>>))

NextDates ==
    \/ \E records \in SeqUpTo(DateRowValues, MaxRows) : Call_get_date_range(records)
    \/ \E country_data \in SeqUpTo(DateRowValues, MaxRows) :
           generate_activities_by_country_dataset(KEN, country_data)

SpecDates == InitDates /\ [][NextDates]_vars

\* the display dates: the texts that name a date
IsDisplayDate(text) ==
    /\ \E m \in DOMAIN MonthNames : text[1] = MonthNames[m]
    /\ text[2] >= 1
    /\ text[3] >= 1

\* the parsed dates of the rows whose "Approval Date" names a date
ValidDates(rows) ==
    {<<date[1][3], CHOOSE m \in DOMAIN MonthNames : MonthNames[m] = date[1][1], date[1][2]>> :
        date \in {Get(rows[i], "Approval Date", None) :
                    i \in {j \in DOMAIN rows :
                              LET d == Get(rows[j], "Approval Date", None)
                              IN  d # None /\ IsDisplayDate(d[1])}}}

\* C5 (as claimed): for any rows, _get_date_range does not fail and returns
\* the (min, max) of the dates of the rows whose date is present and
\* parsable, and (None, None) when there is no such row.
C5_DateRangeExcludesInvalid ==
    out.op = "_get_date_range" =>
        /\ out.raised = ""
        /\ LET valid == ValidDates(out.args)
           IN  IF valid = {} THEN out.value = <<None, None>>
               ELSE /\ out.value[1] # None /\ out.value[2] # None
                    /\ out.value[1][1] \in valid /\ out.value[2][1] \in valid
                    /\ \A d \in valid : DateLE(out.value[1][1], d) /\ DateLE(d, out.value[2][1])

-----------------------------------------------------------------------------
(* Properties of the Country-Activity Grouper (under SpecGroup). *)

\* project records for the grouper: every Countries list over a code and an
\* empty ISO3, and records with a second code (in both orders), with a code
\* written with a space before it, with an entry without ISO3, with no
\* Countries
GroupRecordValues ==
    {[Countries |-> c] : c \in SeqUpTo({KenyaEntry, [ISO3 |-> EmptyStr]}, MaxCountries)}
    \cup {EmptyDict,
          [Countries |-> <<UgandaEntry, KenyaEntry>>, ApprovalDate |-> March2019],
          [Countries |-> <<KenyaEntry, UgandaEntry>>],
          [Countries |-> <<[ISO3 |-> <<Space>> \o UGA], [CountryName |-> Nowhere]>>]}

InitGroup ==
    \E projects \in SeqUpTo(GroupRecordValues, MaxRecords) :
        Constructed(Api(projects, <<>>))

NextGroup ==
    \/ Call_get_activities_by_country
    \/ Call_get_activities_data

SpecGroup == InitGroup /\ [][NextGroup]_vars

\* the codes a "Country Codes" text references, each with the position it
\* starts at: a code is a run of characters without a comma that neither
\* starts nor ends with a space and that only spaces separate from the
\* commas (or the ends of the text) around it
Referenced(text) ==
    {<<i, SubSeq(text, i, j)>> : <<i, j>> \in
        {<<a, b>> \in (DOMAIN text) \X (DOMAIN text) :
            /\ a <= b
            /\ text[a] # Space /\ text[b] # Space
            /\ \A k \in a..b : text[k] # Comma
            /\ \E lo \in 0..(a - 1) :
                   /\ lo = 0 \/ text[lo] = Comma
                   /\ \A k \in (lo + 1)..(a - 1) : text[k] = Space
            /\ \E hi \in (b + 1)..(Len(text) + 1) :
                   /\ hi = Len(text) + 1 \/ text[hi] = Comma
                   /\ \A k \in (b + 1)..(hi - 1) : text[k] = Space}}

\* the codes the row references
CodesReferenced(row) == {r[2] : r \in Referenced(row["Country Codes"])}

\* where the code first appears in the rows: <<row number, position>>
FirstAppearance(rows, code) ==
    LET at == {<<i, r[1]>> : <<i, r>> \in
                  {<<k, q>> \in (DOMAIN rows) \X UNION {Referenced(rows[k]["Country Codes"]) :
                                                          k \in DOMAIN rows} :
                      q \in Referenced(rows[k]["Country Codes"]) /\ q[2] = code}}
    IN  CHOOSE p \in at : \A q \in at : p[1] < q[1] \/ (p[1] = q[1] /\ p[2] <= q[2])

Before(p, q) == p[1] < q[1] \/ (p[1] = q[1] /\ p[2] < q[2])

Grouped == out.op = "get_activities_by_country" /\ out.raised = ""

\* C6: a row is in the bucket of a code exactly if its "Country Codes" text
\* references the code (so a row referencing N distinct codes is in exactly
\* N buckets and a row with no code in none); no bucket is empty; the rows
\* of a bucket are in input order; the bucket keys are in the order of their
\* first appearance.
C6_GroupingStability ==
    Grouped =>
        LET rows == out.args
            groups == out.value
        IN  /\ \A g, h \in DOMAIN groups : groups[g].key = groups[h].key => g = h
            /\ \A g \in DOMAIN groups :
                   /\ groups[g].rows # <<>>
                   /\ \A i \in DOMAIN rows :
                          (rows[i] \in Range(groups[g].rows))
                              <=> (groups[g].key \in CodesReferenced(rows[i]))
                   /\ \E f \in [DOMAIN groups[g].rows -> DOMAIN rows] :
                          /\ \A k \in DOMAIN f : groups[g].rows[k] = rows[f[k]]
                          /\ \A k, l \in DOMAIN f : k <= l => f[k] <= f[l]
            /\ \A i \in DOMAIN rows :
                   Cardinality({g \in DOMAIN groups : rows[i] \in Range(groups[g].rows)})
                       = Cardinality(CodesReferenced(rows[i]))
            /\ \A g, h \in DOMAIN groups :
                   g < h => Before(FirstAppearance(rows, groups[g].key),
                                   FirstAppearance(rows, groups[h].key))

\* C6 witness: two rows have been grouped, the first referencing two codes
\* and in both buckets, the second referencing one of them.
C6_Witness ==
    /\ Grouped
    /\ Len(out.args) = 2
    /\ CodesReferenced(out.args[1]) = {KEN, UGA}
    /\ CodesReferenced(out.args[2]) = {KEN}
    /\ Len(out.value) = 2
    /\ \E g \in DOMAIN out.value :
           out.value[g].key = KEN /\ out.value[g].rows = <<out.args[1], out.args[2]>>

-----------------------------------------------------------------------------
(* The Pipeline run (Spec): every operation, in any order. *)

FP1 == <<"F", "P", "1">>

ProjectOne ==
    [ApprovedRef |-> FP1, TotalGCFFunding |-> 3, Countries |-> <<KenyaEntry, UgandaEntry>>,
     Entities |-> <<EntityA>>, ApprovalDate |-> March2019]

\* a record with no funding, no date, no entity acronym
ProjectTwo == [Countries |-> <<KenyaEntry>>, Entities |-> <<[Name |-> <<"n">>]>>]

ReadinessOne ==
    [AgreementReference |-> <<"R", "1">>, Countries |-> <<UgandaEntry>>,
     AgreementSignedDate |-> Nov2015, AmountApprovedInUSD |-> 5]

\* a readiness record with nothing but an empty Countries list
ReadinessTwo == [Countries |-> <<>>]

Init ==
    \E projects \in SeqUpTo({ProjectOne, ProjectTwo}, MaxRecords),
       readiness \in {<<>>, <<ReadinessOne, ReadinessTwo>>} :
        Constructed(Api(projects, readiness))

\* __main__.py lines 96-100: a dataset for each item of the grouper's result
MainCountryDatasets ==
    /\ first["get_activities_by_country"] # None
    /\ first["get_activities_by_country"][1].raised = ""
    /\ \E item \in Range(first["get_activities_by_country"][1].value) :
           generate_activities_by_country_dataset(item.key, item.rows)

Next ==
    \/ Call_get_activities_data
    \/ Call_get_countries_data
    \/ Call_get_entities_data
    \/ Call_get_readiness_data
    \/ Call_get_activities_by_country
    \/ generate_activities_dataset
    \/ generate_countries_dataset
    \/ generate_entities_dataset
    \/ generate_readiness_dataset
    \/ MainCountryDatasets
    \/ generate_activities_by_country_dataset(KEN, <<>>)

Spec == Init /\ [][Next]_vars

\* C7: download_json is called at most once per URL; once a URL has been
\* fetched the memo holds the result of that fetch, and only then.
C7_FetchMemoized ==
    /\ \A url \in DOMAIN downloads : downloads[url] <= 1
    /\ _project_data = IF downloads[ProjectsUrl] = 0 THEN None
                       ELSE Some(api[ProjectsUrl])
    /\ _readiness_data = IF downloads[ReadinessUrl] = 0 THEN None
                         ELSE Some(api[ReadinessUrl])

\* C7 witness: several operations that read the projects, one of them
\* twice, and one that reads the readiness projects have run; each URL has
\* been fetched once.
C7_Witness ==
    /\ downloads[ProjectsUrl] = 1 /\ downloads[ReadinessUrl] = 1
    /\ first["_get_countries_data"] # None
    /\ first["_get_entities_data"] # None
    /\ first["get_activities_by_country"] # None
    /\ first["_get_activities_data"][1].again
    /\ out.op = "generate_readiness_dataset"

\* the mapper an operation calls
MapperOf ==
    [op \in Mappers |-> op]
    @@ ("generate_activities_dataset" :> "_get_activities_data")
    @@ ("generate_countries_dataset" :> "_get_countries_data")
    @@ ("generate_entities_dataset" :> "_get_entities_data")
    @@ ("generate_readiness_dataset" :> "_get_readiness_data")

\* C8: whatever has been called in between, a mapper returns (or raises)
\* what its first call on this Pipeline returned (or raised).
C8_Idempotent ==
    /\ out.op \in Mappers =>
           /\ first[out.op] # None
           /\ out.raised = first[out.op][1].raised
           /\ out.value = first[out.op][1].value
    /\ out.op \in DOMAIN MapperOf =>
           out.value = first[MapperOf[out.op]][1].value

\* C8 witness: the grouper has returned non-empty groups a second time,
\* after the other mappers ran and self._countries was filled.
C8_Witness ==
    /\ out.op = "get_activities_by_country"
    /\ first[out.op][1].again
    /\ out.value # <<>>
    /\ _countries # {}
    /\ \A m \in Mappers : first[m] # None

GenerateOps ==
    {"generate_activities_dataset", "generate_countries_dataset",
     "generate_entities_dataset", "generate_readiness_dataset",
     "generate_activities_by_country_dataset"}

\* the rows the last generate_*_dataset operation had to publish
RowsToPublish ==
    IF out.op = "generate_activities_by_country_dataset" THEN out.args ELSE out.value

\* C9: generate_resource_from_iterable is never called with an empty row
\* collection, and a generate_*_dataset operation whose rows are empty
\* returns no dataset.
C9_NoEmptyPublish ==
    out.op \in GenerateOps =>
        /\ out.resource # None => out.resource[1] # <<>>
        /\ RowsToPublish = <<>> => out.resource = None /\ out.dataset = None

\* C9 witness: the Entity Aggregator returned zero rows from a fetch that
\* was not empty, and generate_entities_dataset ended with IndexError
\* without publishing.
C9_Witness ==
    /\ out.op = "generate_entities_dataset"
    /\ first["_get_entities_data"][1].raised = ""
    /\ out.value = <<>>
    /\ _project_data[1] # <<>>
    /\ out.raised = "IndexError"
    /\ out.resource = None

-----------------------------------------------------------------------------
(* Properties of the Activity Mapper (under SpecActivities). *)

SAP2 == <<"S", "A", "P", "2">>

\* a record with every optional field the mapper reads, each well formed
FullRecord ==
    [ApprovedRef |-> FP1,
     Entities |-> <<EntityB, EntityA>>,
     Countries |-> <<KenyaEntry, [ISO3 |-> UGA], [CountryName |-> Nowhere]>>,
     ApprovalDate |-> March2019,
     DateCompletion |-> Nov2015,
     ResultAreas |-> <<[Area |-> <<"E">>, Value |-> <<"5", "0", "%">>],
                       [Area |-> <<"H">>, Value |-> <<"0", "%">>],
                       [Area |-> <<"W">>],
                       [Area |-> <<"F">>, Value |-> <<"2", ".", "5", "%">>]>>,
     TotalGCFFunding |-> 3,
     ProjectsID |-> <<"7">>]

\* the records of FullRecord's fields, any subset of them absent
SubRecords == {[key \in keys |-> FullRecord[key]] : keys \in SUBSET DOMAIN FullRecord}

\* records that come before: complete, empty, of the other modality, with a
\* reference of neither modality and an entity without acronym, with a
\* date that is not ISO-8601, with a percentage that is no number
EarlierRecords ==
    {FullRecord,
     EmptyDict,
     [ApprovedRef |-> SAP2, Countries |-> <<[ISO3 |-> KEN]>>, ApprovalDate |-> Nov2015],
     [ApprovedRef |-> <<"f", "p">>, Entities |-> <<[Name |-> <<"n">>]>>,
      ApprovalDate |-> Some(<<"empty", 0, 0, 0, 0>>)],
     [ApprovedRef |-> FP1, ApprovalDate |-> Some(<<"bad", 0, 0, 0, 0>>)],
     [ApprovedRef |-> SAP2,
      ResultAreas |-> <<[Area |-> <<"E">>, Value |-> <<"x", "%">>]>>]}

InitActivities ==
    \E earlier \in SeqUpTo(EarlierRecords, MaxRecords - 1), record \in SubRecords :
        Constructed(Api(earlier \o <<record>>, <<>>))

NextActivities ==
    \/ Call_get_activities_data
    \/ generate_activities_dataset

SpecActivities == InitActivities /\ [][NextActivities]_vars

\* every date the record has is ISO-8601 or empty, every percentage it has
\* is a number followed by "%", every result area has its name
WellFormed(record) ==
    /\ \A key \in {"ApprovalDate", "DateCompletion"} \cap DOMAIN record :
           record[key] = None \/ record[key][1][1] \in {"iso", "isoZ", "empty"}
    /\ \A a \in Range(Get(record, "ResultAreas", <<>>)) :
           /\ "Area" \in DOMAIN a
           /\ "Value" \in DOMAIN a =>
                  \E k \in DOMAIN a["Value"] :
                      /\ \A j \in 1..(k - 1) : a["Value"][j] \in Digits \cup {"."}
                      /\ \A j \in k..Len(a["Value"]) : a["Value"][j] = "%"
                      /\ k > 1

\* the row has the default of every field the record lacks, and the
\* reference, modality and identifier of the record
RowOf(row, record) ==
    /\ row["Ref #"] = Get(record, "ApprovedRef", EmptyStr)
    /\ row["API URL"] = <<ApiUrlPrefix, Get(record, "ProjectsID", EmptyStr)>>
    /\ row["Modality"] =
           IF "ApprovedRef" \notin DOMAIN record THEN EmptyStr
           ELSE IF record["ApprovedRef"] = FP1 THEN <<"F", "P">>
           ELSE IF record["ApprovedRef"] = SAP2 THEN <<"S", "A", "P">>
           ELSE EmptyStr
    /\ "Entities" \notin DOMAIN record => row["Entity"] = None
    /\ "Countries" \notin DOMAIN record =>
           row["Countries"] = EmptyStr /\ row["Country Codes"] = EmptyStr
    /\ "ApprovalDate" \notin DOMAIN record => row["Approval Date"] = None
    /\ ("ApprovalDate" \in DOMAIN record /\ RawDateTruthy(record["ApprovalDate"])) =>
           row["Approval Date"] # None
    /\ "DateCompletion" \notin DOMAIN record => row["Completion Date"] = None
    /\ "ResultAreas" \notin DOMAIN record => row["Result Areas"] = EmptyStr
    /\ "TotalGCFFunding" \notin DOMAIN record => row["FA Financing"] = None

ActivitiesCalled == out.op = "_get_activities_data"

\* C10: over records whose present fields are well formed, whatever
\* optional fields are absent, _get_activities_data does not raise and
\* returns one row per record, in input order, each with the defaults of
\* the fields its record lacks.
C10_OneRowPerRecord ==
    (ActivitiesCalled /\ \A n \in DOMAIN Records : WellFormed(Records[n])) =>
        /\ out.raised = ""
        /\ Len(out.value) = Len(Records)
        /\ \A n \in DOMAIN Records : RowOf(out.value[n], Records[n])

\* C10 witness: a complete record and a record with no field at all have
\* been mapped to two rows.
C10_Witness ==
    /\ ActivitiesCalled
    /\ Records = <<FullRecord, EmptyDict>>
    /\ out.raised = ""
    /\ Len(out.value) = 2
    /\ out.value[1]["Modality"] = <<"F", "P">>
    /\ out.value[2]["Modality"] = EmptyStr

-----------------------------------------------------------------------------
(* First-seen retention in the Country Aggregator (under SpecRetention). *)

Kenia == <<"K", "i">>
Asia == <<"A", "s">>

\* a second entry with the code of KenyaEntry that disagrees with it on
\* every other field
KenyaOther ==
    [ISO3 |-> KEN, CountryName |-> Kenia, Region |-> Asia, LDCs |-> TRUE, SIDS |-> TRUE]

\* records whose Countries are every non-empty list over the two entries
\* with the code KEN, and records with a second code before and after them,
\* with an entry that has no ISO3 first, with an entry that has the code only
RetentionRecordValues ==
    {[Countries |-> c, TotalGCFFunding |-> 3] :
        c \in SeqUpTo({KenyaEntry, KenyaOther}, MaxCountries) \ {<<>>}}
    \cup {[Countries |-> <<UgandaEntry, KenyaOther>>, TotalGCFFunding |-> 1,
           ApprovalDate |-> March2019],
          [Countries |-> <<[CountryName |-> Nowhere], KenyaEntry, UgandaEntry>>,
           ApprovalDate |-> Nov2015],
          [Countries |-> <<[ISO3 |-> UGA], UgandaEntry>>, TotalGCFFunding |-> 3]}

InitRetention ==
    \E projects \in SeqUpTo(RetentionRecordValues, MaxRecords) :
        Constructed(Api(projects, <<>>))

NextRetention ==
    \/ Call_get_countries_data
    \/ generate_countries_dataset

SpecRetention == InitRetention /\ [][NextRetention]_vars

RECURSIVE Flatten(_)
\* the country entries of the records, in input order
Flatten(records) ==
    IF records = <<>> THEN <<>>
    ELSE Get(Head(records), "Countries", <<>>) \o Flatten(Tail(records))

\* the entries, in input order, that are the first with their code
FirstEntries(records) ==
    LET entries == Flatten(records)
        first_with_code(i) ==
            /\ Get(entries[i], "ISO3", EmptyStr) # EmptyStr
            /\ \A j \in 1..(i - 1) :
                   Get(entries[j], "ISO3", EmptyStr) # Get(entries[i], "ISO3", EmptyStr)
        RECURSIVE from(_)
        from(i) == IF i > Len(entries) THEN <<>>
                   ELSE IF first_with_code(i) THEN <<entries[i]>> \o from(i + 1)
                   ELSE from(i + 1)
    IN  from(1)

MetadataFields == {"ISO3", "Country Name", "Region", "LDCs", "SIDS"}

\* the metadata a row takes from a country entry
MetadataOf(entry) ==
    ("ISO3" :> entry["ISO3"])
    @@ ("Country Name" :> IF "CountryName" \in DOMAIN entry THEN entry["CountryName"]
                          ELSE EmptyStr)
    @@ ("Region" :> IF "Region" \in DOMAIN entry THEN entry["Region"] ELSE EmptyStr)
    @@ ("LDCs" :> IF "LDCs" \in DOMAIN entry THEN entry["LDCs"] ELSE FALSE)
    @@ ("SIDS" :> IF "SIDS" \in DOMAIN entry THEN entry["SIDS"] ELSE FALSE)

Metadata(row) == [field \in MetadataFields |-> row[field]]

\* C11: the rows of _get_countries_data are in the order of the first
\* occurrence of each ISO3 code in the input, each row has the Country Name,
\* Region, LDCs and SIDS of the first country entry with its code, and the
\* rows of every prefix of the records keep their position and those fields
\* in the rows of the whole input: later records change only the
\* "FA Financing" and "# FA" of a row.
C11_FirstSeenRetention ==
    CountriesReturned =>
        LET firsts == FirstEntries(Records)
        IN  /\ Len(out.value) = Len(firsts)
            /\ \A i \in DOMAIN out.value : Metadata(out.value[i]) = MetadataOf(firsts[i])
            /\ \A k \in 0..Len(Records) :
                   LET before == _get_countries_data(SubSeq(Records, 1, k)).value.rows
                   IN  /\ Len(before) <= Len(out.value)
                       /\ \A i \in DOMAIN before :
                              /\ Metadata(before[i]) = Metadata(out.value[i])
                              /\ before[i]["Approval Date"] = out.value[i]["Approval Date"]
                              /\ before[i]["# FA"] <= out.value[i]["# FA"]
                              /\ before[i]["FA Financing"] <= out.value[i]["FA Financing"]

\* C11 witness: the first record has KenyaEntry, a later record has an entry
\* with the same code and another name, region and flags, and the row
\* returned counts both and has the name of the first.
C11_Witness ==
    /\ CountriesReturned
    /\ Len(Records) = 2
    /\ CountriesOf(1) = <<KenyaEntry>>
    /\ KenyaOther \in Range(CountriesOf(2))
    /\ out.value[1]["Country Name"] = Kenya
    /\ out.value[1]["# FA"] >= 2

-----------------------------------------------------------------------------
(* Percentages of result areas in the Activity Mapper (under SpecAreas). *)

Percent(text) == text \o <<"%">>

\* result area entries: a positive percentage, with a point, zero, negative,
\* no Value, an empty Value, a Value that is no number, with two points,
\* "%" alone, a number without "%"
AreaEntryValues ==
    {[Area |-> <<"E">>, Value |-> Percent(<<"5", "0">>)],
     [Area |-> <<"F">>, Value |-> Percent(<<"2", ".", "5">>)],
     [Area |-> <<"H">>, Value |-> Percent(<<"0">>)],
     [Area |-> <<"L">>, Value |-> Percent(<<"-", "5">>)],
     [Area |-> <<"W">>],
     [Area |-> <<"I">>, Value |-> EmptyStr],
     [Area |-> <<"B">>, Value |-> Percent(<<"x">>)],
     [Area |-> <<"T">>, Value |-> Percent(<<"1", ".", "2", ".", "3">>)],
     [Area |-> <<"C">>, Value |-> Percent(EmptyStr)],
     [Area |-> <<"P">>, Value |-> <<"5">>]}

\* records with one result area entry each, and records with a Value that
\* is no number after and before a positive percentage, with entries that
\* are all excluded or included, with no ResultAreas
AreaRecordValues ==
    {[ApprovedRef |-> FP1, ResultAreas |-> <<a>>] : a \in AreaEntryValues}
    \cup {[ApprovedRef |-> SAP2,
           ResultAreas |-> <<[Area |-> <<"E">>, Value |-> Percent(<<"5", "0">>)],
                             [Area |-> <<"B">>, Value |-> Percent(<<"x">>)]>>],
          [ApprovedRef |-> SAP2,
           ResultAreas |-> <<[Area |-> <<"B">>, Value |-> Percent(<<"x">>)],
                             [Area |-> <<"E">>, Value |-> Percent(<<"5", "0">>)]>>],
          [ApprovedRef |-> SAP2,
           ResultAreas |-> <<[Area |-> <<"E">>, Value |-> Percent(<<"5", "0">>)],
                             [Area |-> <<"H">>, Value |-> Percent(<<"0">>)],
                             [Area |-> <<"W">>],
                             [Area |-> <<"L">>, Value |-> Percent(<<"-", "5">>)],
                             [Area |-> <<"F">>, Value |-> Percent(<<"2", ".", "5">>)]>>],
          [ApprovedRef |-> SAP2, ApprovalDate |-> March2019]}

InitAreas ==
    \E projects \in SeqUpTo(AreaRecordValues, MaxRecords) :
        Constructed(Api(projects, <<>>))

NextAreas ==
    \/ Call_get_activities_data
    \/ generate_activities_dataset

SpecAreas == InitAreas /\ [][NextAreas]_vars

\* the Value of a result area entry, empty when it has none
ValueOf(a) == IF "Value" \in DOMAIN a THEN a["Value"] ELSE EmptyStr

\* a decimal number: an optional sign, digits, at most one point
IsNumber(text) ==
    \E sign \in {0, 1} :
        /\ Len(text) > sign
        /\ sign = 1 => text[1] \in Signs
        /\ \A j \in (sign + 1)..Len(text) : text[j] \in Digits \cup {"."}
        /\ \A i, j \in (sign + 1)..Len(text) : (text[i] = "." /\ text[j] = ".") => i = j
        /\ \E j \in (sign + 1)..Len(text) : text[j] \in Digits

\* a number followed by "%" signs: what the mapper parses (it removes every
\* trailing "%", so it parses a number without the sign as well)
IsPercentage(value) ==
    \E k \in 0..Len(value) :
        /\ IsNumber(SubSeq(value, 1, k))
        /\ \A j \in (k + 1)..Len(value) : value[j] = "%"

\* a Value that is present, not empty and no percentage
Malformed(a) == ValueOf(a) # EmptyStr /\ ~IsPercentage(ValueOf(a))

\* a percentage of a number > 0
PositivePercentage(value) ==
    /\ IsPercentage(value)
    /\ value[1] # "-"
    /\ \E j \in DOMAIN value : value[j] \in Digits \ {"0"}

\* the names of the entries of a record that "Result Areas" lists
IncludedAreas(record) ==
    LET included(a) == PositivePercentage(ValueOf(a))
        kept == SelectSeq(Get(record, "ResultAreas", <<>>), included)
    IN  [i \in DOMAIN kept |-> kept[i]["Area"]]

AreasMapped == out.op \in {"_get_activities_data", "generate_activities_dataset"}

C12_WitnessExcluded ==
    /\ out.op = "_get_activities_data"
    /\ out.raised = ""
    /\ \E n \in DOMAIN Records :
           /\ Len(Get(Records[n], "ResultAreas", <<>>)) = 5
           /\ out.value[n]["Result Areas"] = <<"E", ",", " ", "F">>

-----------------------------------------------------------------------------
(* The countries table and the per-country activities (under SpecCover). *)

\* the records of the Country Aggregator, and one whose code starts with a
\* blank
CoverRecordValues ==
    CountryRecordValues
    \cup {[Countries |-> <<[ISO3 |-> <<" ", "K">>, CountryName |-> Kenya]>>,
           TotalGCFFunding |-> 3]}

InitCover ==
    \E projects \in SeqUpTo(CoverRecordValues, MaxRecords) :
        Constructed(Api(projects, <<>>))

NextCover ==
    \/ Call_get_countries_data
    \/ Call_get_activities_by_country

SpecCover == InitCover /\ [][NextCover]_vars

\* every record has a country entry, and every ISO3 there is is a non-empty
\* text without a comma or a blank
PlainCodes(records) ==
    \A n \in DOMAIN records :
        LET countries == Get(records[n], "Countries", <<>>)
        IN  /\ countries # <<>>
            /\ \A i \in DOMAIN countries :
                   "ISO3" \in DOMAIN countries[i] =>
                       /\ countries[i]["ISO3"] # EmptyStr
                       /\ Range(countries[i]["ISO3"]) \cap {",", " "} = {}

\* both _get_countries_data and get_activities_by_country have returned
BothReturned ==
    /\ first["_get_countries_data"] # None
    /\ first["get_activities_by_country"] # None
    /\ first["_get_countries_data"][1].raised = ""
    /\ first["get_activities_by_country"][1].raised = ""

CountryRows == first["_get_countries_data"][1].value

Buckets == first["get_activities_by_country"][1].value

\* C13: for records that each have a country entry and whose ISO3 values
\* are non-empty texts without comma or blank, the ISO3 keys of the rows of
\* _get_countries_data are the bucket keys of get_activities_by_country, and
\* the "# FA" of each row is the number of occurrences of activity rows in
\* the bucket of its code.
C13_SameCountries ==
    (BothReturned /\ PlainCodes(Records)) =>
        /\ {CountryRows[i]["ISO3"] : i \in DOMAIN CountryRows}
               = {Buckets[j].key : j \in DOMAIN Buckets}
        /\ \A i \in DOMAIN CountryRows :
               \E j \in DOMAIN Buckets :
                   /\ Buckets[j].key = CountryRows[i]["ISO3"]
                   /\ Len(Buckets[j].rows) = CountryRows[i]["# FA"]

\* C13 witness: the records name two codes, one record has the same code
\* twice and one an entry without ISO3, and both operations have returned:
\* a row counts three occurrences.
C13_Witness ==
    /\ BothReturned
    /\ PlainCodes(Records)
    /\ \E n \in DOMAIN Records : CountriesOf(n) = <<KenyaEntry, KenyaEntry>>
    /\ \E n \in DOMAIN Records : CountriesOf(n) = <<UgandaEntry, KenyaEntry>>
    /\ Len(CountryRows) = 2
    /\ \E i \in DOMAIN CountryRows : CountryRows[i]["# FA"] = 3

\* without the condition on the codes the keys differ: a code that starts
\* with a blank is a row key as it is and a bucket key without the blank
C13_WitnessBlank ==
    /\ BothReturned
    /\ ~PlainCodes(Records)
    /\ {CountryRows[i]["ISO3"] : i \in DOMAIN CountryRows}
           # {Buckets[j].key : j \in DOMAIN Buckets}

====
